---------------------------- MODULE Spec2Model ----------------------------
(***************************************************************************)
(* Identity Resolution Store (app/core/identity_resolver.py).              *)
(*                                                                         *)
(* Strings are sequences of one-character strings, so that str.lower,      *)
(* str.upper, the "+ 's'" pluralisation and the edit distance are computed *)
(* and not assumed.  A Python dict is a sequence of [k, v] entries in      *)
(* insertion order.  An f-string is the tuple of its parts:                *)
(*   f"PERSON_{n}"                  is  <<"PERSON", n>>                     *)
(*   f"[{person_id}_{TYPE}_{i}]"    is  [owner |-> person_id, type, index]  *)
(*   f"[UNMATCHED_{TYPE}_{i}]"      is  [owner |-> <<"UNMATCHED">>, ...]    *)
(***************************************************************************)
EXTENDS Integers, Sequences, FiniteSets, TLC

(***************************************************************************)
(* Ordered dictionaries                                                    *)
(***************************************************************************)
Has(d, key) == \E i \in 1..Len(d) : d[i].k = key

IndexOf(d, key) == CHOOSE i \in 1..Len(d) : d[i].k = key

Get(d, key) == d[IndexOf(d, key)].v

GetOr(d, key, default) == IF Has(d, key) THEN Get(d, key) ELSE default

Put(d, key, val) ==
    IF Has(d, key)
    THEN [d EXCEPT ![IndexOf(d, key)] = [k |-> key, v |-> val]]
    ELSE Append(d, [k |-> key, v |-> val])

Keys(d) == [i \in 1..Len(d) |-> d[i].k]

Values(d) == [i \in 1..Len(d) |-> d[i].v]

Range(s) == {s[i] : i \in 1..Len(s)}

\* dict.update(other) on an unordered view (a value -> x map)
MapUpdate(f, g) ==
    [x \in (DOMAIN f) \cup (DOMAIN g) |-> IF x \in DOMAIN g THEN g[x] ELSE f[x]]

MapSet(f, x, y) == [z \in (DOMAIN f) \cup {x} |-> IF z = x THEN y ELSE f[z]]

EmptyMap == << >>

(***************************************************************************)
(* Characters and strings                                                  *)
(***************************************************************************)
LowerAlpha == <<"a","b","c","d","e","h","i","j","l","m","n","o","p","r","s","é">>

UpperAlpha == <<"A","B","C","D","E","H","I","J","L","M","N","O","P","R","S","É">>

LowerChar(c) ==
    IF \E i \in 1..Len(UpperAlpha) : UpperAlpha[i] = c
    THEN LowerAlpha[CHOOSE i \in 1..Len(UpperAlpha) : UpperAlpha[i] = c]
    ELSE c

UpperChar(c) ==
    IF \E i \in 1..Len(LowerAlpha) : LowerAlpha[i] = c
    THEN UpperAlpha[CHOOSE i \in 1..Len(LowerAlpha) : LowerAlpha[i] = c]
    ELSE c

Lower(s) == [i \in 1..Len(s) |-> LowerChar(s[i])]

Upper(s) == [i \in 1..Len(s) |-> UpperChar(s[i])]

Min2(a, b) == IF a <= b THEN a ELSE b

Min3(a, b, c) == Min2(a, Min2(b, c))

(***************************************************************************)
(* levenshtein_distance(s1, s2)                                            *)
(***************************************************************************)
RECURSIVE LevRow(_, _, _, _, _)
\* the inner loop: distances_ (acc) for character c2 against s1[i1..]
LevRow(s1, c2, distances, i1, acc) ==
    IF i1 > Len(s1) THEN acc
    ELSE LevRow(s1, c2, distances, i1 + 1,
                Append(acc,
                       IF s1[i1] = c2
                       THEN distances[i1]
                       ELSE 1 + Min3(distances[i1], distances[i1 + 1], acc[Len(acc)])))

RECURSIVE LevRows(_, _, _, _)
\* the outer loop over s2, i2 counted from 1
LevRows(s1, s2, distances, i2) ==
    IF i2 > Len(s2) THEN distances
    ELSE LevRows(s1, s2, LevRow(s1, s2[i2], distances, 1, <<i2>>), i2 + 1)

\* distances = range(len(s1) + 1), then the loops; distances[-1] is returned
Distances(s1, s2) == LevRows(s1, s2, [i \in 1..(Len(s1) + 1) |-> i - 1], 1)

Last(distances) == distances[Len(distances)]

\* if len(s1) > len(s2): s1, s2 = s2, s1
Swapped(s1, s2) ==
    IF Len(s1) > Len(s2) THEN Last(Distances(s2, s1)) ELSE Last(Distances(s1, s2))

\* variant: the arguments are compared as given
levenshtein_distance_CaseSensitive(s1, s2) == Swapped(s1, s2)

levenshtein_distance(s1, s2) == Swapped(Lower(s1), Lower(s2))


(***************************************************************************)
(* Store model.  A key that is missing from a JSON object is represented   *)
(* by the default the code reads it with: persons {}, unlinked_pii {},     *)
(* last_person_index -1, unlinked_pii_counters {}.                         *)
(***************************************************************************)
NoIndex == -1

None == << >>

EmptyStore ==
    [persons |-> << >>, unlinked_pii |-> << >>,
     last_person_index |-> NoIndex, unlinked_pii_counters |-> << >>]

MissingFile == [kind |-> "missing", data |-> << >>]

JsonFile(data) == [kind |-> "json", data |-> data]

\* a file whose text does not parse: json.load raises JSONDecodeError
InvalidJson == [kind |-> "invalid json", data |-> << >>]

\* a file whose bytes are not UTF-8 text (cut inside a multi-byte character):
\* f.read() raises UnicodeDecodeError
InvalidUtf8 == [kind |-> "invalid utf-8", data |-> << >>]

\* _load_json lets through every exception but JSONDecodeError
LoadRaises(file) == file.kind = "invalid utf-8"

\* _load_json: {} when the file is missing or does not parse
LoadStore(file) == IF file.kind = "json" THEN file.data ELSE EmptyStore

LoadClusters(file) == IF file.kind = "json" THEN file.data ELSE << >>

RECURSIVE IndexCategory(_, _, _, _)
\* for placeholder, value in values.items(): lookup[value] = person_id
IndexCategory(lookup, person_id, values, i) ==
    IF i > Len(values) THEN lookup
    ELSE IndexCategory(MapSet(lookup, values[i].v, person_id), person_id, values, i + 1)

RECURSIVE IndexPerson(_, _, _, _)
\* for pii_type, values in data.items()
IndexPerson(lookup, person_id, data, i) ==
    IF i > Len(data) THEN lookup
    ELSE IndexPerson(IndexCategory(lookup, person_id, data[i].v, 1), person_id, data, i + 1)

RECURSIVE IndexPersons(_, _, _)
\* for person_id, data in persons.items()
IndexPersons(lookup, persons, i) ==
    IF i > Len(persons) THEN lookup
    ELSE IndexPersons(IndexPerson(lookup, persons[i].k, persons[i].v, 1), persons, i + 1)

\* _build_lookup_index
BuildLookupIndex(store) == IndexPersons(EmptyMap, store.persons, 1)

PersonId(n) == <<"PERSON", n>>

\* variant: the id is formatted but the counter is not written back to _metadata
GetNextPersonId_NotRecorded(store) ==
    [id |-> PersonId(store.last_person_index + 1), store |-> store]

\* _get_next_person_id: the id and the store with the counter advanced
GetNextPersonId(store) ==
    LET next_index == store.last_person_index + 1
    IN [id |-> PersonId(next_index),
        store |-> [store EXCEPT !.last_person_index = next_index]]

(***************************************************************************)
(* _find_match                                                             *)
(***************************************************************************)
emails == <<"e","m","a","i","l","s">>
phones == <<"p","h","o","n","e","s">>
nrics == <<"n","r","i","c","s">>
ssns == <<"s","s","n","s">>
names == <<"n","a","m","e","s">>

ExactTypes == <<emails, phones, nrics, ssns>>

FuzzyThreshold == 2

RECURSIVE ExactCandidatesFrom(_, _)
\* the values of the exact pass in iteration order, from category t on
ExactCandidatesFrom(pii_data, t) ==
    IF t > Len(ExactTypes) THEN << >>
    ELSE GetOr(pii_data, ExactTypes[t], << >>) \o ExactCandidatesFrom(pii_data, t + 1)

ExactCandidates(pii_data) == ExactCandidatesFrom(pii_data, 1)

\* the first candidate found in the lookup index (0 when none)
FirstHit(lookup, candidates) ==
    IF \E i \in 1..Len(candidates) : candidates[i] \in DOMAIN lookup
    THEN CHOOSE i \in 1..Len(candidates) :
            /\ candidates[i] \in DOMAIN lookup
            /\ \A j \in 1..(i - 1) : candidates[j] \notin DOMAIN lookup
    ELSE 0

\* for existing_name in existing_data.get("names", {}).values()
FuzzyOverNames(new_name, person_id, existing) ==
    [i \in 1..Len(existing) |->
        [new_name |-> new_name, person_id |-> person_id, existing_name |-> existing[i]]]

RECURSIVE FuzzyOverPersons(_, _, _)
\* for existing_person_id, existing_data in self.store.get("persons", {}).items()
FuzzyOverPersons(persons, new_name, p) ==
    IF p > Len(persons) THEN << >>
    ELSE FuzzyOverNames(new_name, persons[p].k, Values(GetOr(persons[p].v, names, << >>)))
         \o FuzzyOverPersons(persons, new_name, p + 1)

RECURSIVE FuzzyOverNew(_, _, _)
\* for new_name in new_pii_data.get("names", [])
FuzzyOverNew(persons, new_names, n) ==
    IF n > Len(new_names) THEN << >>
    ELSE FuzzyOverPersons(persons, new_names[n], 1) \o FuzzyOverNew(persons, new_names, n + 1)

\* the (new_name, person, existing_name) triples of the fuzzy pass, in order
FuzzyPairs(store, pii_data) ==
    FuzzyOverNew(store.persons, GetOr(pii_data, names, << >>), 1)

Close(pair) == levenshtein_distance(pair.new_name, pair.existing_name) <= FuzzyThreshold

FirstClose(pairs) ==
    IF \E i \in 1..Len(pairs) : Close(pairs[i])
    THEN CHOOSE i \in 1..Len(pairs) :
            Close(pairs[i]) /\ \A j \in 1..(i - 1) : ~Close(pairs[j])
    ELSE 0

\* the matched person_id (None when there is none), how it was found, and the
\* cluster log with the fuzzy match recorded
FoundAt(lookup, candidates, hit) ==
    IF hit # 0 THEN lookup[candidates[hit]] ELSE None

\* return self._pii_lookup[value], None when the exact pass returns nothing
ExactMatch(lookup, candidates) == FoundAt(lookup, candidates, FirstHit(lookup, candidates))

CloseAt(pairs, close) == IF close # 0 THEN <<pairs[close]>> ELSE << >>

\* the first triple within the threshold, as a sequence of at most one triple
FuzzyMatch(pairs) == CloseAt(pairs, FirstClose(pairs))

\* self.clusters.setdefault(existing_person_id, []).append(f"Fuzzy matched ...")
RecordCluster(clusters, pair) ==
    Put(clusters, pair.person_id,
        Append(GetOr(clusters, pair.person_id, << >>), <<pair.new_name, pair.existing_name>>))

\* the exact pass returns first; the fuzzy pass runs only after it found nothing
MatchOf(clusters, exact, fuzzy) ==
    IF exact # None
    THEN [id |-> exact, how |-> "exact", clusters |-> clusters]
    ELSE IF fuzzy # << >>
    THEN [id |-> fuzzy[1].person_id, how |-> "fuzzy",
          clusters |-> RecordCluster(clusters, fuzzy[1])]
    ELSE [id |-> None, how |-> "none", clusters |-> clusters]

FindMatch(store, clusters, lookup, pii_data) ==
    MatchOf(clusters, ExactMatch(lookup, ExactCandidates(pii_data)),
            FuzzyMatch(FuzzyPairs(store, pii_data)))

(***************************************************************************)
(* _merge_person_pii                                                       *)
(***************************************************************************)
Plural(pii_type) == Lower(pii_type) \o <<"s">>

\* variant: the index is the entry count after the insertion (one-based)
PersonPlaceholder_OneBased(person_id, pii_type, current_index) ==
    [owner |-> person_id, type |-> Upper(pii_type), index |-> current_index + 1]

\* variant: the index is not the size of the category
PersonPlaceholder_NoIndex(person_id, pii_type, current_index) ==
    [owner |-> person_id, type |-> Upper(pii_type), index |-> 0]

PersonPlaceholder(person_id, pii_type, current_index) ==
    [owner |-> person_id, type |-> Upper(pii_type), index |-> current_index]

\* existing_values, taken once per category before its values are merged
ExistingValues(category) == Range(Values(category))

RECURSIVE MergeValues(_, _, _, _, _, _, _)
\* for value in values: acc is [category, lookup, placeholders]
MergeValues(acc, person_id, pii_type, existing_values, values, i, n) ==
    IF i > n THEN acc
    ELSE LET value == values[i]
             current_index == Len(acc.category)
             placeholder == PersonPlaceholder(person_id, pii_type, current_index)
             next == IF value \notin existing_values
                     THEN [category |-> Put(acc.category, placeholder, value),
                           lookup |-> MapSet(acc.lookup, value, person_id),
                           placeholders |-> MapSet(acc.placeholders, value, placeholder)]
                     ELSE acc
         IN MergeValues(next, person_id, pii_type, existing_values, values, i + 1, n)

RECURSIVE MergeTypes(_, _, _, _)
\* for pii_type, values in pii_data.items(): acc is [profile, lookup, placeholders]
MergeTypes(acc, person_id, pii_data, i) ==
    IF i > Len(pii_data) THEN acc
    ELSE LET pii_type == pii_data[i].k
             values == pii_data[i].v
             pii_type_plural == Plural(pii_type)
             profile == IF Has(acc.profile, pii_type_plural)
                        THEN acc.profile
                        ELSE Put(acc.profile, pii_type_plural, << >>)
             category == Get(profile, pii_type_plural)
             merged == MergeValues([category |-> category, lookup |-> acc.lookup,
                                    placeholders |-> acc.placeholders],
                                   person_id, pii_type, ExistingValues(category),
                                   values, 1, Len(values))
         IN MergeTypes([profile |-> Put(profile, pii_type_plural, merged.category),
                        lookup |-> merged.lookup,
                        placeholders |-> merged.placeholders],
                       person_id, pii_data, i + 1)

\* the store and the index after the merge, and the placeholders it returns
MergePersonPii(store, lookup, person_id, pii_data) ==
    LET merged == MergeTypes([profile |-> Get(store.persons, person_id),
                              lookup |-> lookup, placeholders |-> EmptyMap],
                             person_id, pii_data, 1)
    IN [store |-> [store EXCEPT !.persons = Put(@, person_id, merged.profile)],
        lookup |-> merged.lookup,
        placeholders |-> merged.placeholders]

(***************************************************************************)
(* _process_unlinked_pii                                                   *)
(***************************************************************************)
Unmatched == <<"UNMATCHED">>

\* variant: the index is not taken from the shared per-type counter
UnlinkedPlaceholder_NoCounter(pii_type, current_index) ==
    [owner |-> Unmatched, type |-> Upper(pii_type), index |-> 0]

UnlinkedPlaceholder(pii_type, current_index) ==
    [owner |-> Unmatched, type |-> Upper(pii_type), index |-> current_index]

\* variant: membership is tested on the dict itself, that is on its placeholder
\* keys, which no raw value equals
UnlinkedSeen_InKeys(entries, value) ==
    \E i \in 1..Len(entries) : entries[i].k = [owner |-> value]

\* value not in unlinked_store[pii_type].values(), read at each value
UnlinkedSeen(entries, value) == value \in Range(Values(entries))

RECURSIVE UnlinkedValues(_, _, _, _)
\* for value in values: acc is [entries, counters, placeholders]
UnlinkedValues(acc, pii_type, values, i) ==
    IF i > Len(values) THEN acc
    ELSE LET value == values[i]
             current_index == GetOr(acc.counters, Upper(pii_type), 0)
             placeholder == UnlinkedPlaceholder(pii_type, current_index)
             next == IF ~UnlinkedSeen(acc.entries, value)
                     THEN [entries |-> Put(acc.entries, placeholder, value),
                           counters |-> Put(acc.counters, Upper(pii_type), current_index + 1),
                           placeholders |-> MapSet(acc.placeholders, value, placeholder)]
                     ELSE acc
         IN UnlinkedValues(next, pii_type, values, i + 1)

RECURSIVE UnlinkedTypes(_, _, _)
\* for pii_type, values in unlinked_data.items(): acc is [unlinked, counters, placeholders]
UnlinkedTypes(acc, unlinked_data, i) ==
    IF i > Len(unlinked_data) THEN acc
    ELSE LET pii_type == unlinked_data[i].k
             unlinked == IF Has(acc.unlinked, pii_type)
                         THEN acc.unlinked
                         ELSE Put(acc.unlinked, pii_type, << >>)
             done == UnlinkedValues([entries |-> Get(unlinked, pii_type),
                                     counters |-> acc.counters,
                                     placeholders |-> acc.placeholders],
                                    pii_type, unlinked_data[i].v, 1)
         IN UnlinkedTypes([unlinked |-> Put(unlinked, pii_type, done.entries),
                           counters |-> done.counters,
                           placeholders |-> done.placeholders],
                          unlinked_data, i + 1)

\* the store after the unlinked values are stored, and the placeholders returned
ProcessUnlinkedPii(store, unlinked_data) ==
    LET done == UnlinkedTypes([unlinked |-> store.unlinked_pii,
                               counters |-> store.unlinked_pii_counters,
                               placeholders |-> EmptyMap],
                              unlinked_data, 1)
    IN [store |-> [store EXCEPT !.unlinked_pii = done.unlinked,
                                !.unlinked_pii_counters = done.counters],
        placeholders |-> done.placeholders]

(***************************************************************************)
(* resolve_and_update, lines 76-92: the loop over the tentative persons    *)
(* and the unlinked values, on the state loaded under the lock             *)
(***************************************************************************)
\* one iteration of the loop over grouped_pii["persons"]
\* self.store.setdefault("persons", {})[matched_person_id] = {}
NewPerson(alloc) ==
    [id |-> alloc.id, created |-> TRUE,
     store |-> [alloc.store EXCEPT !.persons = Put(@, alloc.id, << >>)]]

\* if not matched_person_id: a new person is created with the next id
MatchedPerson(store, match) ==
    IF match.id = None
    THEN NewPerson(GetNextPersonId(store))
    ELSE [id |-> match.id, created |-> FALSE, store |-> store]

\* document_masking_map.update(person_map)
UpdateMap(ctx, match, person, merged) ==
    [store |-> merged.store,
     clusters |-> match.clusters,
     lookup |-> merged.lookup,
     map |-> MapUpdate(ctx.map, merged.placeholders),
     resolved |-> Append(ctx.resolved,
                         [id |-> person.id, created |-> person.created, how |-> match.how])]

MergeMatched(ctx, pii_data, match, person) ==
    UpdateMap(ctx, match, person,
              MergePersonPii(person.store, ctx.lookup, person.id, pii_data))

ResolveMatch(ctx, pii_data, match) ==
    MergeMatched(ctx, pii_data, match, MatchedPerson(ctx.store, match))

ResolvePerson(ctx, pii_data) ==
    ResolveMatch(ctx, pii_data, FindMatch(ctx.store, ctx.clusters, ctx.lookup, pii_data))

RECURSIVE ResolvePersons(_, _, _)
ResolvePersons(ctx, persons, i) ==
    IF i > Len(persons) THEN ctx
    ELSE ResolvePersons(ResolvePerson(ctx, persons[i].v), persons, i + 1)

\* the critical section between the reload and the save
\* a variant that returns the unlinked placeholders without keeping the store
\* they were filed in
UpdateMapUnlinked_NotStored(ctx, unlinked) ==
    [store |-> ctx.store,
     clusters |-> ctx.clusters,
     lookup |-> ctx.lookup,
     map |-> MapUpdate(ctx.map, unlinked.placeholders),
     resolved |-> ctx.resolved]

\* document_masking_map.update(unlinked_map)
UpdateMapUnlinked(ctx, unlinked) ==
    [store |-> unlinked.store,
     clusters |-> ctx.clusters,
     lookup |-> ctx.lookup,
     map |-> MapUpdate(ctx.map, unlinked.placeholders),
     resolved |-> ctx.resolved]

ResolveUnlinked(ctx, unlinked_data) ==
    UpdateMapUnlinked(ctx, ProcessUnlinkedPii(ctx.store, unlinked_data))

Resolve(store, clusters, lookup, grouped_pii) ==
    ResolveUnlinked(ResolvePersons([store |-> store, clusters |-> clusters, lookup |-> lookup,
                                    map |-> EmptyMap, resolved |-> << >>],
                                   grouped_pii.persons, 1),
                    grouped_pii.unlinked_pii)

(***************************************************************************)
(* Inputs: the grouped_pii batches the callers pass                        *)
(***************************************************************************)
john == <<"j","o","h","n">>
Jo == <<"J","o">>
abc == <<"a","b","c">>

\* levenshtein_distance: john/Jo 2, Jo/abc 3, john/abc 4
RawValues == {john, Jo, abc}

email == <<"e","m","a","i","l">>
name == <<"n","a","m","e">>
addr == <<"a","d","d","r">>
Addr == <<"A","d","d","r">>

\* the type names of a tentative person are the singular names of the input
\* shape (email, name) and the plural names _find_match reads (emails, names)
Field(pii_type, values) == [k |-> pii_type, v |-> values]

\* one tentative person: one value under a type name; a value repeated in its
\* list; two values in a list; an identifier together with another field
TentativePersons ==
    {<<Field(t, <<v>>)>> : t \in {email, emails}, v \in {abc, Jo}}
    \cup {<<Field(name, <<v>>)>> : v \in RawValues}
    \cup {<<Field(names, <<v>>)>> : v \in {Jo, abc}}
    \cup {<<Field(email, <<abc, abc>>)>>}
    \cup {<<Field(emails, <<abc, Jo>>)>>}
    \cup {<<Field(email, <<abc>>), Field(name, <<Jo>>)>>}

UnlinkedData ==
    {<<Field(addr, <<v>>)>> : v \in {abc, Jo}}
    \cup {<<Field(Addr, <<abc>>)>>}
    \cup {<<Field(addr, <<abc, abc>>)>>}

GroupedPii(persons, unlinked) == [persons |-> persons, unlinked_pii |-> unlinked]

\* a batch: one tentative person, or unlinked values only, or two tentative
\* persons with the same identifier, or a tentative person and an unlinked value
Batches ==
    {GroupedPii(<<Field("t1", p)>>, << >>) : p \in TentativePersons}
    \cup {GroupedPii(<< >>, u) : u \in UnlinkedData}
    \cup {GroupedPii(<<Field("t1", <<Field(t, <<abc>>)>>),
                       Field("t2", <<Field(t, <<abc>>)>>)>>, << >>) : t \in {email, emails}}
    \cup {GroupedPii(<<Field("t1", <<Field(email, <<abc>>)>>)>>, <<Field(addr, <<abc>>)>>)}

NoBatch == GroupedPii(<< >>, << >>)

(***************************************************************************)
(* Callers: each process holds its own IdentityStore on the same paths     *)
(***************************************************************************)
Procs == {"p1", "p2"}

MaxCalls == 2

VARIABLES
    store_file,             \* the file at store_path
    cluster_file,           \* the file at cluster_path
    lock,                   \* holder of FileLock(store_path + ".lock"), or "free"
    pc,                     \* where each caller is
    grouped_pii,            \* the argument of the caller's current call
    self_store,             \* self.store
    self_clusters,          \* self.clusters
    self_lookup,            \* self._pii_lookup
    document_masking_map,   \* the map built, and returned at "done"
    loaded,                 \* history: the store as reloaded under the lock
    resolved,               \* history: the person each tentative person went to
    calls,                  \* number of calls started
    last_call,              \* history: the call that released the lock last
    prev_call,              \* history: last_call as it was when the caller reloaded
    contended,              \* history: the call begun last began while another was under way
    lev                     \* a levenshtein_distance(s1, s2) evaluation: arguments and result

vars == <<store_file, cluster_file, lock, pc, grouped_pii, self_store, self_clusters,
          self_lookup, document_masking_map, loaded, resolved, calls, last_call, prev_call,
          contended, lev>>

NoDistance == -1

NoLev == [s1 |-> << >>, s2 |-> << >>, distance |-> NoDistance]

NoCall == [grouped_pii |-> NoBatch, map |-> EmptyMap, made |-> FALSE]

\* both callers have constructed their IdentityStore (__init__) on paths that
\* hold no file yet
Init ==
    /\ store_file = MissingFile
    /\ cluster_file = MissingFile
    /\ lock = "free"
    /\ pc = [p \in Procs |-> "idle"]
    /\ grouped_pii = [p \in Procs |-> NoBatch]
    /\ self_store = [p \in Procs |-> LoadStore(store_file)]
    /\ self_clusters = [p \in Procs |-> LoadClusters(cluster_file)]
    /\ self_lookup = [p \in Procs |-> BuildLookupIndex(LoadStore(store_file))]
    /\ document_masking_map = [p \in Procs |-> EmptyMap]
    /\ loaded = [p \in Procs |-> EmptyStore]
    /\ resolved = [p \in Procs |-> << >>]
    /\ calls = 0
    /\ last_call = NoCall
    /\ prev_call = [p \in Procs |-> NoCall]
    /\ contended = FALSE
    /\ lev = NoLev

InCall == {"waiting", "locked", "loaded", "merged", "saved"}

\* the caller is outside resolve_and_update: it has not called yet, or its call
\* returned, or its call raised
Outside == {"idle", "done", "aborted", "interrupted", "load error"}

\* resolve_and_update(grouped_pii) is entered: the caller blocks on the lock
Call(p, b) ==
    /\ pc[p] \in Outside
    /\ calls < MaxCalls
    /\ grouped_pii' = [grouped_pii EXCEPT ![p] = b]
    /\ document_masking_map' = [document_masking_map EXCEPT ![p] = EmptyMap]
    /\ resolved' = [resolved EXCEPT ![p] = << >>]
    /\ calls' = calls + 1
    /\ contended' = \E q \in Procs \ {p} : pc[q] \in InCall
    /\ pc' = [pc EXCEPT ![p] = "waiting"]
    /\ UNCHANGED <<lev, store_file, cluster_file, lock, self_store, self_clusters, self_lookup,
                   loaded, last_call, prev_call>>

\* variant: the with block is entered without waiting for the holder
Acquire_NoWait(p) ==
    /\ pc[p] = "waiting"
    /\ lock' = p
    /\ pc' = [pc EXCEPT ![p] = "locked"]
    /\ UNCHANGED <<lev, store_file, cluster_file, grouped_pii, self_store, self_clusters,
                   self_lookup, document_masking_map, loaded, resolved, calls, last_call,
                   prev_call, contended>>

\* with self.lock: (line 70)
Acquire(p) ==
    /\ pc[p] = "waiting"
    /\ lock = "free"
    /\ lock' = p
    /\ pc' = [pc EXCEPT ![p] = "locked"]
    /\ UNCHANGED <<lev, store_file, cluster_file, grouped_pii, self_store, self_clusters,
                   self_lookup, document_masking_map, loaded, resolved, calls, last_call,
                   prev_call, contended>>

\* variant: the store is not reloaded under the lock; the caller goes on with
\* the snapshot it holds in memory
Reload_Stale(p) ==
    /\ pc[p] = "locked"
    /\ self_lookup' = [self_lookup EXCEPT ![p] = BuildLookupIndex(self_store[p])]
    /\ loaded' = [loaded EXCEPT ![p] = self_store[p]]
    /\ prev_call' = [prev_call EXCEPT ![p] = last_call]
    /\ pc' = [pc EXCEPT ![p] = "loaded"]
    /\ UNCHANGED <<lev, store_file, cluster_file, lock, grouped_pii, self_store, self_clusters,
                   document_masking_map, resolved, calls, last_call, contended>>

\* lines 72-74: reload both files and rebuild the index inside the lock
Reload(p) ==
    /\ pc[p] = "locked"
    /\ ~LoadRaises(store_file)
    /\ self_store' = [self_store EXCEPT ![p] = LoadStore(store_file)]
    /\ self_clusters' = [self_clusters EXCEPT ![p] = LoadClusters(cluster_file)]
    /\ self_lookup' = [self_lookup EXCEPT ![p] = BuildLookupIndex(LoadStore(store_file))]
    /\ loaded' = [loaded EXCEPT ![p] = LoadStore(store_file)]
    /\ prev_call' = [prev_call EXCEPT ![p] = last_call]
    /\ pc' = [pc EXCEPT ![p] = "loaded"]
    /\ UNCHANGED <<lev, store_file, cluster_file, lock, grouped_pii, document_masking_map,
                   resolved, calls, last_call, contended>>

\* lines 76-92: match and merge every tentative person, then the unlinked values
Processed(p, r) ==
    /\ self_store' = [self_store EXCEPT ![p] = r.store]
    /\ self_clusters' = [self_clusters EXCEPT ![p] = r.clusters]
    /\ self_lookup' = [self_lookup EXCEPT ![p] = r.lookup]
    /\ document_masking_map' = [document_masking_map EXCEPT ![p] = r.map]
    /\ resolved' = [resolved EXCEPT ![p] = r.resolved]

Process(p) ==
    /\ pc[p] = "loaded"
    /\ Processed(p, Resolve(self_store[p], self_clusters[p], self_lookup[p], grouped_pii[p]))
    /\ pc' = [pc EXCEPT ![p] = "merged"]
    /\ UNCHANGED <<lev, store_file, cluster_file, lock, grouped_pii, loaded, calls, last_call,
                   prev_call, contended>>

\* lines 95-96: both files are rewritten from memory
Save(p) ==
    /\ pc[p] = "merged"
    /\ store_file' = JsonFile(self_store[p])
    /\ cluster_file' = JsonFile(self_clusters[p])
    /\ pc' = [pc EXCEPT ![p] = "saved"]
    /\ UNCHANGED <<lev, lock, grouped_pii, self_store, self_clusters, self_lookup,
                   document_masking_map, loaded, resolved, calls, last_call, prev_call, contended>>

\* the with block is left and document_masking_map is returned (lines 96-98)
Release(p) ==
    /\ pc[p] = "saved"
    /\ lock = p
    /\ lock' = "free"
    /\ last_call' = [grouped_pii |-> grouped_pii[p], map |-> document_masking_map[p],
                     made |-> TRUE]
    /\ pc' = [pc EXCEPT ![p] = "done"]
    /\ UNCHANGED <<lev, store_file, cluster_file, grouped_pii, self_store, self_clusters,
                   self_lookup, document_masking_map, loaded, resolved, calls, prev_call, contended>>

Next ==
    \/ \E p \in Procs : \E b \in Batches : Call(p, b)
    \/ \E p \in Procs : Acquire(p)
    \/ \E p \in Procs : Reload(p)
    \/ \E p \in Procs : Process(p)
    \/ \E p \in Procs : Save(p)
    \/ \E p \in Procs : Release(p)

Spec == Init /\ [][Next]_vars

(***************************************************************************)
(* Calls that raise.  The with block releases the lock on every exception; *)
(* the files are written by _save_json only.                               *)
(***************************************************************************)
MultiByte == {"é", "É"}

\* the raw values a store holds, under persons and unlinked
StoredValues(store) ==
    UNION {Range(Values(category.v)) :
              category \in UNION {Range(person.v) : person \in Range(store.persons)}}
    \cup UNION {Range(Values(t.v)) : t \in Range(store.unlinked_pii)}

\* json.dump(..., ensure_ascii=False) writes such a value in more than one byte
HasMultiByte(store) ==
    \E value \in StoredValues(store) : \E i \in 1..Len(value) : value[i] \in MultiByte

\* self.store as the loop leaves it when it is abandoned
Aborted(p, ctx) ==
    /\ self_store' = [self_store EXCEPT ![p] = ctx.store]
    /\ self_clusters' = [self_clusters EXCEPT ![p] = ctx.clusters]
    /\ self_lookup' = [self_lookup EXCEPT ![p] = ctx.lookup]

\* variant: what the loop has merged so far is written out when it is abandoned
Abort_Flushes(p) ==
    /\ pc[p] = "loaded"
    /\ \E k \in 0..Len(grouped_pii[p].persons) :
          Aborted(p, ResolvePersons([store |-> self_store[p], clusters |-> self_clusters[p],
                                     lookup |-> self_lookup[p], map |-> EmptyMap,
                                     resolved |-> << >>],
                                    SubSeq(grouped_pii[p].persons, 1, k), 1))
    /\ store_file' = JsonFile(self_store'[p])
    /\ lock' = "free"
    /\ last_call' = NoCall
    /\ pc' = [pc EXCEPT ![p] = "aborted"]
    /\ UNCHANGED <<lev, cluster_file, grouped_pii, document_masking_map, loaded,
                   resolved, calls, prev_call, contended>>

\* variant: the exception leaves the call without releasing the lock
Abort_KeepsLock(p) ==
    /\ pc[p] = "loaded"
    /\ \E k \in 0..Len(grouped_pii[p].persons) :
          Aborted(p, ResolvePersons([store |-> self_store[p], clusters |-> self_clusters[p],
                                     lookup |-> self_lookup[p], map |-> EmptyMap,
                                     resolved |-> << >>],
                                    SubSeq(grouped_pii[p].persons, 1, k), 1))
    /\ last_call' = NoCall
    /\ pc' = [pc EXCEPT ![p] = "aborted"]
    /\ UNCHANGED <<lev, lock, store_file, cluster_file, grouped_pii, document_masking_map,
                   loaded, resolved, calls, prev_call, contended>>

\* lines 76-92 raise after k tentative persons were merged in memory (k = all of
\* them: the unlinked processing raises); the with block is left by the exception
Abort(p) ==
    /\ pc[p] = "loaded"
    /\ \E k \in 0..Len(grouped_pii[p].persons) :
          Aborted(p, ResolvePersons([store |-> self_store[p], clusters |-> self_clusters[p],
                                     lookup |-> self_lookup[p], map |-> EmptyMap,
                                     resolved |-> << >>],
                                    SubSeq(grouped_pii[p].persons, 1, k), 1))
    /\ lock' = "free"
    /\ last_call' = NoCall
    /\ pc' = [pc EXCEPT ![p] = "aborted"]
    /\ UNCHANGED <<lev, store_file, cluster_file, grouped_pii, document_masking_map, loaded,
                   resolved, calls, prev_call, contended>>

\* _save_json (lines 167-169) opens the file for writing, which empties it, and
\* is cut short while json.dump writes: the text left is no JSON document, and
\* no UTF-8 text when it ends inside a multi-byte character
SaveStoreInterrupted(p, left) ==
    /\ pc[p] = "merged"
    /\ left = InvalidUtf8 => HasMultiByte(self_store[p])
    /\ store_file' = left
    /\ lock' = "free"
    /\ last_call' = NoCall
    /\ pc' = [pc EXCEPT ![p] = "interrupted"]
    /\ UNCHANGED <<lev, cluster_file, grouped_pii, self_store, self_clusters, self_lookup,
                   document_masking_map, loaded, resolved, calls, prev_call, contended>>

\* line 95 has written the store; line 96 is cut short while it writes the clusters
SaveClustersInterrupted(p) ==
    /\ pc[p] = "merged"
    /\ store_file' = JsonFile(self_store[p])
    /\ cluster_file' = InvalidJson
    /\ lock' = "free"
    /\ last_call' = NoCall
    /\ pc' = [pc EXCEPT ![p] = "interrupted"]
    /\ UNCHANGED <<lev, grouped_pii, self_store, self_clusters, self_lookup,
                   document_masking_map, loaded, resolved, calls, prev_call, contended>>

\* line 72: _load_json raises on the store file, inside the with block
ReloadRaises(p) ==
    /\ pc[p] = "locked"
    /\ LoadRaises(store_file)
    /\ lock' = "free"
    /\ last_call' = NoCall
    /\ pc' = [pc EXCEPT ![p] = "load error"]
    /\ UNCHANGED <<lev, store_file, cluster_file, grouped_pii, self_store, self_clusters,
                   self_lookup, document_masking_map, loaded, resolved, calls, prev_call,
                   contended>>

Je == <<"J","é">>

\* batches of the calls that may raise: a name with a multi-byte character, an
\* identifier, two tentative persons, an unlinked value
FailBatches ==
    {GroupedPii(<<Field("t1", <<Field(name, <<Je>>)>>)>>, << >>),
     GroupedPii(<<Field("t1", <<Field(email, <<abc>>)>>)>>, << >>),
     GroupedPii(<<Field("t1", <<Field(email, <<abc>>)>>),
                  Field("t2", <<Field(name, <<Jo>>)>>)>>, <<Field(addr, <<abc>>)>>),
     GroupedPii(<< >>, <<Field(addr, <<Jo>>)>>)}

\* the files an earlier run left: none, or those one call wrote
SeedBatch == GroupedPii(<<Field("t1", <<Field(email, <<Jo>>)>>)>>, << >>)

SeedStore == Resolve(EmptyStore, << >>, EmptyMap, SeedBatch).store

InitFail ==
    /\ \/ store_file = MissingFile /\ cluster_file = MissingFile
       \/ store_file = JsonFile(SeedStore) /\ cluster_file = JsonFile(<< >>)
    /\ lock = "free"
    /\ pc = [p \in Procs |-> "idle"]
    /\ grouped_pii = [p \in Procs |-> NoBatch]
    /\ self_store = [p \in Procs |-> LoadStore(store_file)]
    /\ self_clusters = [p \in Procs |-> LoadClusters(cluster_file)]
    /\ self_lookup = [p \in Procs |-> BuildLookupIndex(LoadStore(store_file))]
    /\ document_masking_map = [p \in Procs |-> EmptyMap]
    /\ loaded = [p \in Procs |-> EmptyStore]
    /\ resolved = [p \in Procs |-> << >>]
    /\ calls = 0
    /\ last_call = NoCall
    /\ prev_call = [p \in Procs |-> NoCall]
    /\ contended = FALSE
    /\ lev = NoLev

NextFail ==
    \/ \E p \in Procs : \E b \in FailBatches : Call(p, b)
    \/ \E p \in Procs : Acquire(p)
    \/ \E p \in Procs : Reload(p)
    \/ \E p \in Procs : ReloadRaises(p)
    \/ \E p \in Procs : Process(p)
    \/ \E p \in Procs : Abort(p)
    \/ \E p \in Procs : Save(p)
    \/ \E p \in Procs : \E left \in {InvalidJson, InvalidUtf8} : SaveStoreInterrupted(p, left)
    \/ \E p \in Procs : SaveClustersInterrupted(p)
    \/ \E p \in Procs : Release(p)

SpecFail == InitFail /\ [][NextFail]_vars

\* the next step of p's call once it holds the lock, returning or raising
Step(p) ==
    \/ Reload(p) \/ ReloadRaises(p)
    \/ Abort(p) \/ Process(p)
    \/ Save(p) \/ SaveClustersInterrupted(p)
    \/ \E left \in {InvalidJson, InvalidUtf8} : SaveStoreInterrupted(p, left)
    \/ Release(p)

\* fair scheduling: a call that holds the lock goes on (no step of lines 72-98
\* waits for anything), and a caller that finds the lock free again and again
\* gets it
Fairness == \A p \in Procs : WF_vars(Step(p)) /\ SF_vars(Acquire(p))

SpecLive == InitFail /\ [][NextFail]_vars /\ Fairness

(***************************************************************************)
(* Vocabulary of the properties                                            *)
(***************************************************************************)
\* the callers whose loop over the batch has run
Merged == {p \in Procs : pc[p] \in {"merged", "saved", "done"}}

OnDisk == LoadStore(store_file)

Tentative(p) == 1..Len(grouped_pii[p].persons)

PiiData(p, i) == grouped_pii[p].persons[i].v

FieldValues(pii_data, pii_type) == Range(GetOr(pii_data, pii_type, << >>))

\* the raw values a store holds for a person under a category
Stored(store, person_id, category) ==
    Range(Values(GetOr(GetOr(store.persons, person_id, << >>), category, << >>)))

PersonIds(store) == Range(Keys(store.persons))

\* the call p has completed repeats, argument for argument, the call completed
\* just before it
Repeats(p) ==
    /\ pc[p] = "done"
    /\ prev_call[p].made
    /\ prev_call[p].grouped_pii = grouped_pii[p]

Distinct(entries) == Cardinality(Range(Values(entries))) = Len(entries)

(***************************************************************************)
(* C1-C10                                                                  *)
(***************************************************************************)
\* C1: when the reloaded store holds a person P with email e, a tentative
\* person of the batch that carries e under the type name email resolves to P
\* and no person_id is allocated for it.
C1_ExactMatchResolvesToHolder ==
    \A p \in Merged : \A i \in Tentative(p) :
        \A e \in FieldValues(PiiData(p, i), email) :
            \A P \in PersonIds(loaded[p]) :
                e \in Stored(loaded[p], P, emails)
                    => resolved[p][i].id = P /\ ~resolved[p][i].created

\* C2: a call that repeats the previous call with the same tentative persons
\* returns the same placeholders and leaves the store as the first call left it.
C2_ResolveIdempotent ==
    \A p \in Procs :
        (Repeats(p) /\ grouped_pii[p].persons # << >>)
            => /\ document_masking_map[p] = prev_call[p].map
               /\ self_store[p] = loaded[p]

\* C3: the returned map has an entry for every raw value of the batch's
\* tentative persons; a value already stored for the matched person maps to the
\* placeholder it was stored under.
C3_MapCoversEveryValue ==
    \A p \in Merged : \A i \in Tentative(p) :
        \A f \in Range(PiiData(p, i)) : \A value \in Range(f.v) :
            /\ value \in DOMAIN document_masking_map[p]
            /\ \A entry \in Range(GetOr(GetOr(loaded[p].persons, resolved[p][i].id, << >>),
                                        Plural(f.k), << >>)) :
                    entry.v = value => document_masking_map[p][value] = entry.k

AllCreated(p) ==
    /\ grouped_pii[p].persons # << >>
    /\ \A i \in Tentative(p) : resolved[p][i].created

BatchValues(p) ==
    UNION {Range(f.v) : f \in UNION {Range(PiiData(p, i)) : i \in Tentative(p)}}

CreatedIds(p) == {resolved[p][i].id : i \in Tentative(p)}

\* every value of p's tentative persons is on disk under the person it went to
PersistedOnDisk(p) ==
    \A i \in Tentative(p) :
        /\ resolved[p][i].id \in PersonIds(OnDisk)
        /\ \A f \in Range(PiiData(p, i)) :
                Range(f.v) \subseteq Stored(OnDisk, resolved[p][i].id, Plural(f.k))

\* C4: when two callers' calls overlap, each with new persons whose values the
\* other does not carry, then once both have completed the store on disk holds
\* the persons of both under distinct person_ids, with every value stored.
C4_NoLostUpdate ==
    \A p \in Procs : \A q \in Procs \ {p} :
        ( /\ pc[p] = "done" /\ pc[q] = "done" /\ contended
          /\ AllCreated(p) /\ AllCreated(q)
          /\ BatchValues(p) \cap BatchValues(q) = {} )
            => /\ CreatedIds(p) \cap CreatedIds(q) = {}
               /\ PersistedOnDisk(p)
               /\ PersistedOnDisk(q)

C4_Witness ==
    /\ pc["p1"] = "done" /\ pc["p2"] = "done" /\ contended
    /\ AllCreated("p1") /\ AllCreated("p2")
    /\ BatchValues("p1") \cap BatchValues("p2") = {}
    /\ Len(OnDisk.persons) = 2

\* no value of the tentative person's identifier fields is a stored value
NoExactHit(p, i) ==
    \A t \in {email, emails} :
        FieldValues(PiiData(p, i), t) \cap DOMAIN BuildLookupIndex(loaded[p]) = {}

\* a name of the tentative person is within the threshold of a name stored for P
CloseTo(p, i, P) ==
    \E n \in FieldValues(PiiData(p, i), name) : \E m \in Stored(loaded[p], P, names) :
        levenshtein_distance(n, m) <= FuzzyThreshold

\* C5: a tentative person without an exact hit whose name is at distance <= 2
\* of a name stored for an existing person is merged into such a person; when
\* all its names are at distance >= 3 of every stored name a person is created.
C5_FuzzyThreshold ==
    \A p \in Merged : \A i \in Tentative(p) :
        (NoExactHit(p, i) /\ FieldValues(PiiData(p, i), name) # {})
            => IF \E P \in PersonIds(loaded[p]) : CloseTo(p, i, P)
               THEN /\ ~resolved[p][i].created
                    /\ CloseTo(p, i, resolved[p][i].id)
               ELSE resolved[p][i].created

\* C6: in the store on disk the raw values of one category of one person are
\* pairwise distinct: a value repeated in a value list is stored once.
C6_ValueStoredOnce ==
    \A person \in Range(OnDisk.persons) : \A category \in Range(person.v) :
        Distinct(category.v)

\* C7: the placeholder indices of every category of every person on disk are
\* exactly 0 .. n-1 for its n entries.
C7_DenseIndices ==
    \A person \in Range(OnDisk.persons) : \A category \in Range(person.v) :
        {entry.k.index : entry \in Range(category.v)} = 0..(Len(category.v) - 1)

\* a category that was filled by two merges: a matched person gained an entry
C7_Witness ==
    \E p \in Procs :
        /\ pc[p] = "done"
        /\ \E i \in Tentative(p) :
              /\ ~resolved[p][i].created
              /\ \E f \in Range(PiiData(p, i)) :
                    /\ GetOr(GetOr(loaded[p].persons, resolved[p][i].id, << >>),
                             Plural(f.k), << >>) # << >>
                    /\ Len(GetOr(Get(OnDisk.persons, resolved[p][i].id), Plural(f.k), << >>))
                         > Len(GetOr(Get(loaded[p].persons, resolved[p][i].id),
                                     Plural(f.k), << >>))

DensePersonIds ==
    /\ PersonIds(OnDisk) = {PersonId(n) : n \in 0..(Len(OnDisk.persons) - 1)}
    /\ OnDisk.last_person_index = Len(OnDisk.persons) - 1

\* the ids a call allocates are not ids of the store it reloaded, nor twice the
\* same within the call
FreshIds ==
    \A p \in Merged : \A i \in Tentative(p) :
        resolved[p][i].created
            => /\ resolved[p][i].id \notin PersonIds(loaded[p])
               /\ \A j \in Tentative(p) \ {i} : resolved[p][j].id # resolved[p][i].id
                     \/ ~resolved[p][j].created

IdsOnlyGrow ==
    /\ LoadStore(store_file').last_person_index >= OnDisk.last_person_index
    /\ PersonIds(OnDisk) \subseteq PersonIds(LoadStore(store_file'))

C9_UnlinkedDedup ==
    /\ \A t \in Range(OnDisk.unlinked_pii) : Distinct(t.v)
    /\ \A p \in Merged : \A f \in Range(grouped_pii[p].unlinked_pii) :
          LET before == GetOr(loaded[p].unlinked_pii, f.k, << >>)
              after == GetOr(self_store[p].unlinked_pii, f.k, << >>)
          IN /\ Len(after) = Len(before) + Cardinality(Range(f.v) \ Range(Values(before)))
             /\ \A j \in 1..Len(before) : after[j] = before[j]

\* an unlinked value that the type already held was submitted again
C9_Witness ==
    \E p \in Procs :
        /\ pc[p] = "done"
        /\ \E f \in Range(grouped_pii[p].unlinked_pii) :
              /\ Range(f.v) \cap Range(Values(GetOr(loaded[p].unlinked_pii, f.k, << >>))) # {}
              /\ GetOr(OnDisk.unlinked_pii, f.k, << >>) = GetOr(loaded[p].unlinked_pii, f.k, << >>)

\* C10: a call that repeats the previous call with the same unlinked_pii
\* returns the mapping the first call returned.
C10_UnlinkedRepeatSameMap ==
    \A p \in Procs :
        (Repeats(p) /\ grouped_pii[p].persons = << >> /\ grouped_pii[p].unlinked_pii # << >>)
            => document_masking_map[p] = prev_call[p].map

(***************************************************************************)
(* Calls on a store that holds two persons: a tentative person that        *)
(* carries values of both                                                  *)
(***************************************************************************)
phone == <<"p","h","o","n","e">>

\* two tentative persons that become two persons; then a tentative person with
\* the identifier of the first and the identifier of the second, the second
\* given first; with both in one value list; with an identifier of one and a
\* name close to a name of the other.  Under the type names _find_match reads
\* and under the type names of the input shape.
OrderBatches ==
    {GroupedPii(<<Field("t1", <<Field(emails, <<abc>>)>>),
                  Field("t2", <<Field(phones, <<Jo>>)>>)>>, << >>),
     GroupedPii(<<Field("t1", <<Field(phones, <<Jo>>), Field(emails, <<abc>>)>>)>>, << >>),
     GroupedPii(<<Field("t1", <<Field(emails, <<Jo, abc>>)>>)>>, << >>),
     GroupedPii(<<Field("t1", <<Field(email, <<abc>>)>>),
                  Field("t2", <<Field(phone, <<Jo>>)>>)>>, << >>),
     GroupedPii(<<Field("t1", <<Field(phone, <<Jo>>), Field(email, <<abc>>)>>)>>, << >>),
     GroupedPii(<<Field("t1", <<Field(name, <<john>>)>>),
                  Field("t2", <<Field(emails, <<abc>>)>>)>>, << >>),
     GroupedPii(<<Field("t1", <<Field(names, <<Jo>>), Field(emails, <<abc>>)>>)>>, << >>)}

NextOrder ==
    \/ \E p \in Procs : \E b \in OrderBatches : Call(p, b)
    \/ \E p \in Procs : Acquire(p)
    \/ \E p \in Procs : Reload(p)
    \/ \E p \in Procs : Process(p)
    \/ \E p \in Procs : Save(p)
    \/ \E p \in Procs : Release(p)

SpecOrder == Init /\ [][NextOrder]_vars

(***************************************************************************)
(* levenshtein_distance on its own: every pair of strings up to a length   *)
(***************************************************************************)
LevAlphabet == {"a", "b", "A"}

MaxLevLen == 3

LevStrings == UNION {[1..n -> LevAlphabet] : n \in 0..MaxLevLen}

InitLev ==
    /\ store_file = MissingFile
    /\ cluster_file = MissingFile
    /\ lock = "free"
    /\ pc = [p \in Procs |-> "idle"]
    /\ grouped_pii = [p \in Procs |-> NoBatch]
    /\ self_store = [p \in Procs |-> EmptyStore]
    /\ self_clusters = [p \in Procs |-> << >>]
    /\ self_lookup = [p \in Procs |-> EmptyMap]
    /\ document_masking_map = [p \in Procs |-> EmptyMap]
    /\ loaded = [p \in Procs |-> EmptyStore]
    /\ resolved = [p \in Procs |-> << >>]
    /\ calls = 0
    /\ last_call = NoCall
    /\ prev_call = [p \in Procs |-> NoCall]
    /\ contended = FALSE
    /\ lev \in {[s1 |-> a, s2 |-> b, distance |-> NoDistance] : a \in LevStrings, b \in LevStrings}

\* levenshtein_distance(s1, s2) is called and returns
Measure ==
    /\ lev.distance = NoDistance
    /\ lev' = [lev EXCEPT !.distance = levenshtein_distance(lev.s1, lev.s2)]
    /\ UNCHANGED <<store_file, cluster_file, lock, pc, grouped_pii, self_store, self_clusters,
                   self_lookup, document_masking_map, loaded, resolved, calls, last_call,
                   prev_call, contended>>

NextLev == Measure

SpecLev == InitLev /\ [][NextLev]_vars

(***************************************************************************)
(* C11-C20                                                                 *)
(***************************************************************************)
\* a call that raises in lines 76-92 writes neither file, leaves the store on
\* disk as the call reloaded it, and frees the lock it held
AbortLeavesDisk ==
    \A p \in Procs :
        (pc[p] = "loaded" /\ pc'[p] = "aborted")
            => /\ store_file' = store_file
               /\ cluster_file' = cluster_file
               /\ LoadStore(store_file') = loaded[p]
               /\ lock = p /\ lock' = "free"

\* a call that has reloaded holds what the files hold, whatever an earlier
\* call left in memory
ReloadsDisk ==
    \A p \in Procs :
        pc[p] = "loaded"
            => /\ loaded[p] = LoadStore(store_file)
               /\ self_store[p] = LoadStore(store_file)
               /\ self_clusters[p] = LoadClusters(cluster_file)
               /\ self_lookup[p] = BuildLookupIndex(LoadStore(store_file))

\* C11: when a call raises during matching, merging or unlinked processing,
\* the store file and the cluster file are what they were before the call, the
\* lock is released, and the next call starts from that state on disk.
C11_AbortLeavesPriorState == [][AbortLeavesDisk]_vars /\ []ReloadsDisk

\* a call raised after it had merged into memory, on a store that held a
\* person; the next caller has reloaded that store
C11_Witness ==
    \E p \in Procs : \E q \in Procs \ {p} :
        /\ pc[p] = "aborted"
        /\ loaded[p] # EmptyStore
        /\ self_store[p] # loaded[p]
        /\ pc[q] = "loaded" /\ lock = q
        /\ loaded[q] = loaded[p]

\* the (person, category) pairs of a store under which a raw value is stored
PersonPlaces(store, value) ==
    UNION {{<<person.k, category.k>> :
               category \in {c \in Range(person.v) : value \in Range(Values(c.v))}} :
           person \in Range(store.persons)}

InUnlinked(store, value) ==
    \E t \in Range(store.unlinked_pii) : value \in Range(Values(t.v))

\* C12: every raw value of the store on disk is stored in one place: under one
\* category of one person, or in the unlinked store, and not in both.
C12_ValueInOnePlace ==
    \A value \in StoredValues(OnDisk) :
        Cardinality(PersonPlaces(OnDisk, value))
            + (IF InUnlinked(OnDisk, value) THEN 1 ELSE 0) = 1

Digits == <<"0","1","2","3","4","5","6","7","8","9">>

RECURSIVE Decimal(_)
\* the decimal digits an f-string writes for a non-negative integer
Decimal(n) ==
    IF n < 10 THEN <<Digits[n + 1]>>
    ELSE Decimal(n \div 10) \o <<Digits[(n % 10) + 1]>>

\* f"PERSON_{next_index}", and the literal UNMATCHED
OwnerText(owner) ==
    IF owner = Unmatched
    THEN <<"U","N","M","A","T","C","H","E","D">>
    ELSE <<"P","E","R","S","O","N","_">> \o Decimal(owner[2])

\* the placeholder string: f"[{person_id}_{pii_type.upper()}_{current_index}]"
\* and f"[UNMATCHED_{pii_type.upper()}_{current_index}]"
PlaceholderText(placeholder) ==
    <<"[">> \o OwnerText(placeholder.owner) \o <<"_">> \o placeholder.type
           \o <<"_">> \o Decimal(placeholder.index) \o <<"]">>

\* every key of a store as an occurrence: where it is, its text, its raw value
Occurrences(store) ==
    UNION {UNION {{[place |-> <<"persons", person.k, category.k>>, at |-> i,
                    text |-> PlaceholderText(category.v[i].k), value |-> category.v[i].v] :
                      i \in 1..Len(category.v)} :
                  category \in Range(person.v)} :
           person \in Range(store.persons)}
    \cup UNION {{[place |-> <<"unlinked_pii", t.k>>, at |-> i,
                  text |-> PlaceholderText(t.v[i].k), value |-> t.v[i].v] :
                    i \in 1..Len(t.v)} :
                t \in Range(store.unlinked_pii)}

\* C13: no placeholder string is a key at two places of the store on disk
\* (two categories, two persons, a person and the unlinked store, two unlinked
\* types), so the placeholder -> raw value map read back from it is a function.
C13_PlaceholdersUnique ==
    \A a \in Occurrences(OnDisk) : \A b \in Occurrences(OnDisk) :
        a.text = b.text => a = b

\* unlinked types that differ in case only share one counter, and a person
\* holds entries as well
C13_Witness ==
    /\ GetOr(OnDisk.unlinked_pii, addr, << >>) # << >>
    /\ GetOr(OnDisk.unlinked_pii, Addr, << >>) # << >>

RECURSIVE EditDistance(_, _)
\* the least number of single-character insertions, deletions and
\* substitutions that turn a into b
EditDistance(a, b) ==
    IF a = << >> THEN Len(b)
    ELSE IF b = << >> THEN Len(a)
    ELSE IF Head(a) = Head(b) THEN EditDistance(Tail(a), Tail(b))
    ELSE 1 + Min3(EditDistance(Tail(a), b), EditDistance(a, Tail(b)),
                  EditDistance(Tail(a), Tail(b)))

\* C14: levenshtein_distance(a, b) is the edit distance of lowercase(a) and
\* lowercase(b); it is the same for (b, a); it is 0 exactly when the lowercased
\* strings are equal.
C14_LevenshteinIsEditDistance ==
    lev.distance # NoDistance
        => /\ lev.distance = EditDistance(Lower(lev.s1), Lower(lev.s2))
           /\ lev.distance = levenshtein_distance(lev.s2, lev.s1)
           /\ (lev.distance = 0) <=> (Lower(lev.s1) = Lower(lev.s2))

\* a longer first argument (the swap is taken) with an upper-case letter, at
\* distance 2 of the second
C14_Witness ==
    /\ lev.distance = 2
    /\ Len(lev.s1) > Len(lev.s2)
    /\ lev.s1 # Lower(lev.s1)

\* C15: no call ends with an error raised by the load: whenever the store file
\* is missing or does not hold valid structured data, the call that reloads it
\* goes on as on an empty store.
C15_LoadNeverRaises ==
    \A p \in Procs :
        /\ pc[p] # "load error"
        /\ (pc[p] = "loaded" /\ store_file.kind # "json") => loaded[p] = EmptyStore

CallOrder ==
    {<<"idle", "waiting">>, <<"done", "waiting">>, <<"waiting", "locked">>,
     <<"locked", "loaded">>, <<"loaded", "merged">>, <<"merged", "saved">>,
     <<"saved", "done">>}

\* every step of a caller is the next step of its call
StepOrder == \A p \in Procs : pc'[p] # pc[p] => <<pc[p], pc'[p]>> \in CallOrder

\* the callers between the acquisition and the release of the lock
Holders == {p \in Procs : pc[p] \in {"locked", "loaded", "merged", "saved"}}

MutualExclusion == Cardinality(Holders) <= 1 /\ \A p \in Holders : lock = p

\* the files change at the save step of the lock holder only, and the lock is
\* freed by the holder only after its save
WrittenAtSave ==
    /\ (store_file' # store_file \/ cluster_file' # cluster_file)
          => \E p \in Procs : /\ pc[p] = "merged" /\ pc'[p] = "saved" /\ lock = p
                              /\ store_file' = JsonFile(self_store[p])
                              /\ cluster_file' = JsonFile(self_clusters[p])
    /\ (lock # "free" /\ lock' = "free") => pc[lock] = "saved" /\ pc'[lock] = "done"

\* C16: every call goes acquire, reload, match/merge, save, release; at most
\* one caller is between acquire and release; what a call reloads is what the
\* files hold, that is what the latest save wrote, and not what the caller held
\* in memory before it took the lock.
C16_LockedReloadMergeSave ==
    [](MutualExclusion /\ ReloadsDisk) /\ [][StepOrder /\ WrittenAtSave]_vars

\* a caller that began while another call was under way has waited and holds,
\* reloaded, the store the other saved, which its constructor had not seen
C16_Witness ==
    \E p \in Procs : \E q \in Procs \ {p} :
        /\ contended
        /\ pc[q] = "done"
        /\ pc[p] = "loaded"
        /\ loaded[p] # EmptyStore
        /\ self_store[p] = LoadStore(store_file)

nric == <<"n","r","i","c">>

ssn == <<"s","s","n">>

\* the high-certainty categories under the type names of the input shape
InputTypes == <<email, phone, nric, ssn>>

RECURSIVE CandidatesIn(_, _, _)
\* the values of a tentative person under the given type names, in the order
\* of the names and then of the values, from the t-th name on
CandidatesIn(pii_data, types, t) ==
    IF t > Len(types) THEN << >>
    ELSE GetOr(pii_data, types[t], << >>) \o CandidatesIn(pii_data, types, t + 1)

\* the first tentative person of p's batch went, by the exact pass, to the
\* holder of the first of the candidates that the reloaded store holds, and
\* when it is the only one of the batch the cluster log was left as it was
FirstMatchWins(p, candidates, lookup) ==
    FirstHit(lookup, candidates) # 0
        => /\ resolved[p][1].id = lookup[candidates[FirstHit(lookup, candidates)]]
           /\ resolved[p][1].how = "exact"
           /\ Len(grouped_pii[p].persons) = 1 => self_clusters[p] = LoadClusters(cluster_file)

\* the same statement for a batch that names its categories emails, phones,
\* nrics, ssns, the keys _find_match reads
ExactPassAsRead ==
    \A p \in Procs :
        (pc[p] = "merged" /\ grouped_pii[p].persons # << >>)
            => FirstMatchWins(p, CandidatesIn(PiiData(p, 1), ExactTypes, 1),
                              BuildLookupIndex(loaded[p]))

\* C17: a tentative person resolves to the holder of the first stored value
\* among its emails, then phones, nrics, ssns, each in the given order (email of
\* A and phone of B: to A), by the exact pass, and an exact hit leaves the
\* cluster log as it was.
C17_ExactPassFirstMatch ==
    \A p \in Procs :
        (pc[p] = "merged" /\ grouped_pii[p].persons # << >>)
            => FirstMatchWins(p, CandidatesIn(PiiData(p, 1), InputTypes, 1),
                              BuildLookupIndex(loaded[p]))

\* tentative persons i and j of p's batch carry, under the type name t, a same
\* value that the reloaded store does not hold
ShareNew(p, i, j, t) ==
    (FieldValues(PiiData(p, i), t) \cap FieldValues(PiiData(p, j), t))
        \ DOMAIN BuildLookupIndex(loaded[p]) # {}

\* the same statement as C18 for a batch that names the category emails
SeesEarlierAsRead ==
    \A p \in Merged : \A i \in Tentative(p) : \A j \in Tentative(p) :
        (i < j /\ ShareNew(p, i, j, emails))
            => resolved[p][j].id = resolved[p][i].id /\ ~resolved[p][j].created

\* C18: when two tentative persons of one batch carry the same email, which
\* the store did not hold before the call, the later one resolves to the
\* person of the earlier one and no person is created for it.
C18_LaterSeesEarlier ==
    \A p \in Merged : \A i \in Tentative(p) : \A j \in Tentative(p) :
        (i < j /\ ShareNew(p, i, j, email))
            => resolved[p][j].id = resolved[p][i].id /\ ~resolved[p][j].created

\* C19: at the save step of every call the index kept up to date while
\* merging is the index that _build_lookup_index computes from the persons in
\* memory: same raw values, same person_id for each.
C19_LiveIndexIsRebuilt ==
    \A p \in Procs :
        pc[p] = "merged" => self_lookup[p] = BuildLookupIndex(self_store[p])

\* every person and every placeholder -> raw value entry of store a is in
\* store b, at the same place with the same raw value
GrownFrom(a, b) ==
    /\ PersonIds(a) \subseteq PersonIds(b)
    /\ Occurrences(a) \subseteq Occurrences(b)

\* no step takes a person or an entry off the disk
DiskOnlyGrows == GrownFrom(OnDisk, LoadStore(store_file'))

\* a call that has saved has on disk all that was on disk when it reloaded
SavedOverLoaded ==
    \A p \in Procs : pc[p] \in {"saved", "done"} => GrownFrom(loaded[p], OnDisk)

\* C20: every person and every placeholder -> raw value entry, person-scoped
\* or unlinked, that is on disk before a call is on disk after it with the same
\* raw value, in every sequence and interleaving of calls.
C20_StoreOnlyGrows == []SavedOverLoaded /\ [][DiskOnlyGrows]_vars

\* a call has added an entry to a person that the store already held
C20_Witness ==
    \E p \in Procs :
        /\ pc[p] = "done"
        /\ grouped_pii[p].persons # << >>
        /\ ~resolved[p][1].created
        /\ loaded[p] # OnDisk
        /\ Occurrences(loaded[p]) # {}

(***************************************************************************)
(* C21-C23                                                                 *)
(***************************************************************************)
\* the texts [UNMATCHED_<TYPE>_0] .. [UNMATCHED_<TYPE>_(n-1)]
UnmatchedTexts(pii_type, n) ==
    {PlaceholderText(UnlinkedPlaceholder(pii_type, i)) : i \in 0..(n - 1)}

\* the entries of all the unlinked types whose upper-cased name is TYPE
EntriesOfUpper(store, TYPE) ==
    UNION {Range(t.v) : t \in {u \in Range(store.unlinked_pii) : Upper(u.k) = TYPE}}

\* the same statement as C21 with the entries counted per upper-cased type
\* name, the key of the counters
UnlinkedDensePerCounter ==
    \A t \in Range(OnDisk.unlinked_pii) :
        /\ {PlaceholderText(entry.k) : entry \in EntriesOfUpper(OnDisk, Upper(t.k))}
             = UnmatchedTexts(t.k, Cardinality(EntriesOfUpper(OnDisk, Upper(t.k))))
        /\ GetOr(OnDisk.unlinked_pii_counters, Upper(t.k), 0)
             = Cardinality(EntriesOfUpper(OnDisk, Upper(t.k)))

\* C21: for every unlinked type of the store on disk, with n entries, the
\* placeholders are exactly [UNMATCHED_<TYPE>_0] .. [UNMATCHED_<TYPE>_(n-1)] and
\* unlinked_pii_counters[<TYPE>] is n.
C21_UnlinkedDense ==
    \A t \in Range(OnDisk.unlinked_pii) :
        /\ {PlaceholderText(entry.k) : entry \in Range(t.v)} = UnmatchedTexts(t.k, Len(t.v))
        /\ GetOr(OnDisk.unlinked_pii_counters, Upper(t.k), 0) = Len(t.v)

\* the lock is held by a caller inside the with block, never by one whose call
\* has returned or raised
NoOrphanLock == \A p \in Procs : pc[p] \in Outside => lock # p

\* a caller waits only for a lock that a caller inside the with block holds
NoDeadlock ==
    \A p \in Procs : pc[p] = "waiting" => lock = "free" \/ lock \in Holders

\* C22: every exit of a call, return or raise, releases the lock; under fair
\* scheduling every caller that waits for the lock acquires it and every call
\* returns or raises; no deadlock is reachable.
C22_CallsTerminate ==
    /\ [](NoOrphanLock /\ NoDeadlock)
    /\ \A p \in Procs : (pc[p] = "waiting") ~> (pc[p] = "locked")
    /\ \A p \in Procs : (pc[p] \in InCall) ~> (pc[p] \in Outside)

\* a call begun while another was under way has returned, and the other raised
C22_Witness ==
    \E p \in Procs : \E q \in Procs \ {p} :
        /\ contended
        /\ pc[p] \in {"aborted", "interrupted", "load error"}
        /\ pc[q] = "done"
        /\ lock = "free"

\* the (raw value, placeholder) pairs of a map that the store does not hold as
\* a key with that text mapped to that value
NotPersisted(map, store) ==
    {value \in DOMAIN map :
        ~ \E o \in Occurrences(store) :
              o.text = PlaceholderText(map[value]) /\ o.value = value}

\* C23: when a call has saved, every (raw value, placeholder) pair of the map it
\* returns is in the store it saved: the placeholder is a key there and maps to
\* that raw value; so too when one raw value comes under several tentative
\* persons, or under a person and in unlinked_pii, of one batch.
C23_ReturnedMapPersisted ==
    \A p \in Procs :
        pc[p] = "saved" => NotPersisted(document_masking_map[p], OnDisk) = {}

\* a call has saved a batch with one raw value under a person and in
\* unlinked_pii, after a call whose batch had one raw value under two persons
C23_Witness ==
    \E p \in Procs :
        /\ pc[p] = "saved"
        /\ \E person \in Range(grouped_pii[p].persons) :
           \E field \in Range(person.v) :
           \E t \in Range(grouped_pii[p].unlinked_pii) :
               /\ Range(field.v) \cap Range(t.v) # {}
               /\ Range(field.v) \cap Range(t.v) \subseteq DOMAIN document_masking_map[p]
        /\ last_call.made
        /\ \E i, j \in 1..Len(last_call.grouped_pii.persons) :
              /\ i # j
              /\ last_call.grouped_pii.persons[i].v = last_call.grouped_pii.persons[j].v
              /\ last_call.map # EmptyMap

=============================================================================
